---- MODULE Spec2Model ----
(***************************************************************************)
(* Model of the HR-CNN training harness of omniocular:                     *)
(*   src/common/train.py                      TrainerFactory               *)
(*   src/models/diff_token/hr_cnn/__main__.py UnknownWordVecCache,         *)
(*                                            evaluate_dataset, __main__   *)
(* The trainer class (common/trainers/diff_string_trainer.py) and the      *)
(* evaluator factory (common/evaluation.py) are imported by these files    *)
(* but are not part of the sources at hand; the definitions modelling them *)
(* follow the written design (sections 4.2 and 4.4) and say so.            *)
(*                                                                         *)
(* Four specifications share the variables:                                *)
(*   Spec         one run of the entry point, line by line                 *)
(*   SpecFactory  TrainerFactory.get_trainer called with arbitrary names   *)
(*   SpecCache    UnknownWordVecCache.unk called with arbitrary shapes     *)
(*   SpecTrainer  the trainer's epoch loop with early stopping             *)
(***************************************************************************)
EXTENDS Integers, Sequences, FiniteSets, TLC

VARIABLES
    pc,             \* position of the entry point (line about to run), or "idle"
    args,           \* the parsed command line (get_args())
    cuda_available, \* torch.cuda.is_available()
    device,         \* the resolved torch.device: "unset", "cpu" or "cuda"
    seeded,         \* the random sources seeded so far: source -> seed
    allocated,      \* training resources built so far: component -> device it is put on / handed
    model,          \* where the object bound to `model` comes from
    loads,          \* the torch.load calls made so far, in order
    raised,         \* the message of the exception raised, or NoError
    trainer,        \* the object bound to `trainer`, or NoTrainer
    constructed,    \* every trainer object a constructor has built, in order
    requested,      \* the dataset_name of each get_trainer call so far
    train_calls,    \* number of trainer.train() calls
    reported,       \* the evaluate_dataset reports printed: <<split, model>>
    cache,          \* UnknownWordVecCache.cache: shape -> tensor
    next_id,        \* identity of the next tensor object allocated
    unk_calls,      \* the unk calls made so far: [shape, ret]
    t_state,        \* trainer state machine: Idle/Training/Evaluating/EarlyStopped/Completed
    t_epoch,        \* trainer: current epoch
    best_dev,       \* trainer: best dev metric seen so far
    unimproved,     \* trainer: the patience counter
    snapshot,       \* trainer: epoch whose parameters the persisted snapshot holds (0: none)
    dev_metrics,    \* trainer: the dev metric of each evaluation so far
    patience,       \* trainer_config['patience']
    epochs          \* the epoch budget given to train()

main_vars    == <<pc, args, cuda_available, device, seeded, allocated, model, loads,
                  train_calls, reported>>
factory_vars == <<raised, trainer, constructed, requested>>
cache_vars   == <<cache, next_id, unk_calls>>
trainer_vars == <<t_state, t_epoch, best_dev, unimproved, snapshot, dev_metrics,
                  patience, epochs>>
vars == <<main_vars, factory_vars, cache_vars, trainer_vars>>

----------------------------------------------------------------------------
(* Bounds of the model *)

MaxCalls    == 3    \* calls of get_trainer / unk in one behaviour
MaxDim      == 2    \* tensor shapes are <<d>>, d in 1..MaxDim
MaxEpochs   == 5    \* largest epoch budget
MaxMetric   == 2    \* dev metrics range over 0..MaxMetric
MaxPatience == 2    \* patience ranges over 1..MaxPatience

----------------------------------------------------------------------------
(* Values *)

NoError   == <<>>
NoTrainer == [cls |-> "None"]

\* Dataset names a caller may pass: the entry point's one, the factory's one,
\* and two that neither knows.
DatasetNames == {"VulasDiffToken", "VulasDiff", "Reuters", ""}

\* str.format with one "{}" field: the template is kept as its pieces, and the
\* field is replaced by the argument.
Format(template, arg) ==
    [i \in 1..Len(template) |-> IF template[i] = "{}" THEN arg ELSE template[i]]

\* n occurs in the message as the text substituted for a field
Contains(message, n) == \E i \in 1..Len(message) : message[i] = n

----------------------------------------------------------------------------
(* src/common/train.py *)

\* The constructor of the trainer class: binds what it is given.  The class
\* resolves its best-snapshot path from the configured save path.
DiffStringTrainer(m, embedding, train_loader, trainer_config, train_evaluator, test_evaluator, dev_evaluator) ==
    [cls |-> "DiffStringTrainer", model |-> m, embedding |-> embedding,
     train_loader |-> train_loader, config |-> trainer_config,
     train_evaluator |-> train_evaluator, test_evaluator |-> test_evaluator,
     dev_evaluator |-> dev_evaluator, snapshot_path |-> "snapshot_path"]

\* TrainerFactory.trainer_map: the recognized names
trainer_map == {"VulasDiff"}

\* A bug the factory could have: an unknown name silently falls back to the
\* one trainer there is.
get_trainer_fallback(dataset_name, m, embedding, train_loader, trainer_config, train_evaluator, test_evaluator, dev_evaluator) ==
    LET t == DiffStringTrainer(m, embedding, train_loader, trainer_config,
                               train_evaluator, test_evaluator, dev_evaluator)
    IN  [raised |-> NoError, value |-> t, built |-> <<t>>]

\* TrainerFactory.get_trainer: what it raises, what it returns, and the
\* objects whose constructor it ran.
get_trainer(dataset_name, m, embedding, train_loader, trainer_config, train_evaluator, test_evaluator, dev_evaluator) ==
    IF dataset_name \notin trainer_map
    THEN [raised |-> Format(<<"{}", " is not implemented.">>, dataset_name),
          value  |-> NoTrainer,
          built  |-> <<>>]
    ELSE LET t == DiffStringTrainer(m, embedding, train_loader, trainer_config,
                                    train_evaluator, test_evaluator, dev_evaluator)
         IN  [raised |-> NoError, value |-> t, built |-> <<t>>]

\* A caller invokes TrainerFactory.get_trainer(n, m, None, loader, ...).  The
\* name `trainer` is bound only when the call returns.
CallGetTrainer(n, m, loader) ==
    /\ pc = "idle"
    /\ Len(requested) < MaxCalls
    /\ LET r == get_trainer(n, m, "None", loader, "trainer_config",
                            "train_evaluator", "test_evaluator", "dev_evaluator")
       IN  /\ requested' = Append(requested, n)
           /\ raised' = r.raised
           /\ constructed' = constructed \o r.built
           /\ trainer' = IF r.raised = NoError THEN r.value ELSE trainer
    /\ UNCHANGED <<main_vars, cache_vars, trainer_vars>>

----------------------------------------------------------------------------
(* src/models/diff_token/hr_cnn/__main__.py: UnknownWordVecCache *)

\* tuple(tensor.size()) of the tensors a vocabulary hands to unk_init
Shapes == {<<d>> : d \in 1..MaxDim}

\* uniform_(-0.25, 0.25) draws each component from [-0.25, 0.25); in
\* hundredths, the two ends of the range and its middle
Samples == {-25, 0, 24}

\* The contents uniform_ may fill a tensor of the given shape with
Fills(shape) == [1..shape[1] -> Samples]

\* A bug the cache could have: a fresh tensor is sampled on every call.
unk_resample(shape, sample) ==
    /\ pc = "idle"
    /\ Len(unk_calls) < MaxCalls
    /\ LET filled == (shape :> [id |-> next_id, data |-> sample])
                         @@ [s \in DOMAIN cache \ {shape} |-> cache[s]]
       IN  /\ cache' = filled
           /\ next_id' = next_id + 1
           /\ unk_calls' = Append(unk_calls, [shape |-> shape, ret |-> filled[shape]])
    /\ UNCHANGED <<main_vars, factory_vars, trainer_vars>>

\* UnknownWordVecCache.unk(tensor): on a miss a new tensor object of the
\* shape is allocated, filled in place and retained; the retained object is
\* returned.  `sample` is what uniform_ draws if it is called.
unk(shape, sample) ==
    /\ pc = "idle"
    /\ Len(unk_calls) < MaxCalls
    /\ LET miss   == shape \notin DOMAIN cache
           filled == IF miss
                     THEN cache @@ (shape :> [id |-> next_id, data |-> sample])
                     ELSE cache
       IN  /\ cache' = filled
           /\ next_id' = IF miss THEN next_id + 1 ELSE next_id
           /\ unk_calls' = Append(unk_calls, [shape |-> shape, ret |-> filled[shape]])
    /\ UNCHANGED <<main_vars, factory_vars, trainer_vars>>

----------------------------------------------------------------------------
(* The trainer's epoch loop (design section 4.4; the class itself is       *)
(* imported by src/common/train.py line 1 and is not among the sources).   *)

\* Idle -> Training(1): train(epochs) starts the first epoch.
StartTraining ==
    /\ pc = "idle"
    /\ t_state = "Idle"
    /\ t_state' = "Training"
    /\ t_epoch' = 1
    /\ UNCHANGED <<best_dev, unimproved, snapshot, dev_metrics, patience, epochs>>
    /\ UNCHANGED <<main_vars, factory_vars, cache_vars>>

\* Training(i) -> Evaluating(i): one full pass over the training iterator.
TrainEpoch ==
    /\ pc = "idle"
    /\ t_state = "Training"
    /\ t_state' = "Evaluating"
    /\ UNCHANGED <<t_epoch, best_dev, unimproved, snapshot, dev_metrics, patience, epochs>>
    /\ UNCHANGED <<main_vars, factory_vars, cache_vars>>

\* A bug the loop could have: it stops only once the counter has gone past
\* the threshold.
Evaluate_exceeds(metric) ==
    /\ pc = "idle"
    /\ t_state = "Evaluating"
    /\ dev_metrics' = Append(dev_metrics, metric)
    /\ IF metric > best_dev
       THEN /\ unimproved' = 0
            /\ best_dev' = metric
            /\ snapshot' = t_epoch
       ELSE /\ unimproved' = unimproved + 1
            /\ UNCHANGED <<best_dev, snapshot>>
    /\ IF unimproved' > patience
       THEN t_state' = "EarlyStopped" /\ UNCHANGED t_epoch
       ELSE IF t_epoch = epochs
            THEN t_state' = "Completed" /\ UNCHANGED t_epoch
            ELSE t_state' = "Training" /\ t_epoch' = t_epoch + 1
    /\ UNCHANGED <<patience, epochs>>
    /\ UNCHANGED <<main_vars, factory_vars, cache_vars>>

\* Evaluating(i) -> Training(i+1) | EarlyStopped | Completed: the dev
\* evaluator's primary metric is compared with the best seen so far.  On an
\* improvement the counter is reset and the parameters are persisted; else
\* the counter is incremented, and the loop stops once it reaches the
\* threshold.
Evaluate(metric) ==
    /\ pc = "idle"
    /\ t_state = "Evaluating"
    /\ dev_metrics' = Append(dev_metrics, metric)
    /\ IF metric > best_dev
       THEN /\ unimproved' = 0
            /\ best_dev' = metric
            /\ snapshot' = t_epoch
       ELSE /\ unimproved' = unimproved + 1
            /\ UNCHANGED <<best_dev, snapshot>>
    /\ IF unimproved' >= patience
       THEN t_state' = "EarlyStopped" /\ UNCHANGED t_epoch
       ELSE IF t_epoch = epochs
            THEN t_state' = "Completed" /\ UNCHANGED t_epoch
            ELSE t_state' = "Training" /\ t_epoch' = t_epoch + 1
    /\ UNCHANGED <<patience, epochs>>
    /\ UNCHANGED <<main_vars, factory_vars, cache_vars>>

----------------------------------------------------------------------------
(* src/models/diff_token/hr_cnn/__main__.py: the entry point *)

RandomSources == {"torch", "numpy", "random"}
Seeds == {0, 1}

\* the entry point's dataset_map: the names it accepts
dataset_map == {"VulasDiffToken"}

\* The evaluator factory (design section 4.2): it is handed the dataset
\* class, the model, the iterator and the device argument, and builds the
\* evaluator bound to them.
get_evaluator(dataset_cls, m, embedding, data_loader, batch_size, dev) ==
    [cls |-> dataset_cls, model |-> m, loader |-> data_loader, device |-> dev]

\* map_location of the two guarded torch.load calls: under args.cuda every
\* storage is moved with storage.cuda(args.gpu), else it stays as
\* deserialized, on the CPU.
map_location == IF args.cuda THEN "cuda" ELSE "cpu"

\* evaluate_dataset: builds an evaluator for the model it is handed, gets its
\* scores and prints them under the split's name.
evaluate_dataset(split_name, dataset_cls, m, embedding, loader, batch_size, dev) ==
    [split |-> split_name,
     model |-> get_evaluator(dataset_cls, m, embedding, loader, batch_size, dev).model]

\* lines 63-65: torch.manual_seed(args.seed)
SeedTorch ==
    /\ pc = "seed_torch"
    /\ seeded' = seeded @@ ("torch" :> args.seed)
    /\ pc' = "resolve_device"
    /\ UNCHANGED <<args, cuda_available, device, allocated, model, loads, train_calls, reported>>
    /\ UNCHANGED <<factory_vars, cache_vars, trainer_vars>>

\* lines 67-74: the device is the accelerator when one is available and the
\* flag asks for it, else the CPU
ResolveDevice ==
    /\ pc = "resolve_device"
    /\ device' = IF cuda_available /\ args.cuda THEN "cuda" ELSE "cpu"
    /\ pc' = "seed_numpy_random"
    /\ UNCHANGED <<args, cuda_available, seeded, allocated, model, loads, train_calls, reported>>
    /\ UNCHANGED <<factory_vars, cache_vars, trainer_vars>>

\* A bug the entry point could have: random.seed is forgotten.
SeedNumpyRandom_numpy_only ==
    /\ pc = "seed_numpy_random"
    /\ seeded' = seeded @@ ("numpy" :> args.seed)
    /\ pc' = "load_dataset"
    /\ UNCHANGED <<args, cuda_available, device, allocated, model, loads, train_calls, reported>>
    /\ UNCHANGED <<factory_vars, cache_vars, trainer_vars>>

\* lines 76-78: np.random.seed(args.seed); random.seed(args.seed)
SeedNumpyRandom ==
    /\ pc = "seed_numpy_random"
    /\ seeded' = seeded @@ ("numpy" :> args.seed) @@ ("random" :> args.seed)
    /\ pc' = "load_dataset"
    /\ UNCHANGED <<args, cuda_available, device, allocated, model, loads, train_calls, reported>>
    /\ UNCHANGED <<factory_vars, cache_vars, trainer_vars>>

\* lines 80-93: an unknown dataset name raises; else the three iterators are
\* built on the resolved device
LoadDataset ==
    /\ pc = "load_dataset"
    /\ IF args.dataset \notin dataset_map
       THEN /\ raised' = <<"Unrecognized dataset">>
            /\ pc' = "raised"
            /\ UNCHANGED allocated
       ELSE /\ allocated' = allocated @@ [c \in {"train_iter", "dev_iter", "test_iter"} |-> device]
            /\ pc' = "build_model"
            /\ UNCHANGED raised
    /\ UNCHANGED <<args, cuda_available, device, seeded, model, loads, train_calls, reported>>
    /\ UNCHANGED <<trainer, constructed, requested, cache_vars, trainer_vars>>

\* lines 95-114: the configuration is derived from the training split; the
\* model is loaded from the resume snapshot, or built and, under args.cuda,
\* moved to the accelerator
BuildModel ==
    /\ pc = "build_model"
    /\ IF args.resume_snapshot
       THEN /\ loads' = Append(loads, [path |-> "resume_snapshot", map_location |-> map_location])
            /\ model' = "resume_snapshot"
            /\ allocated' = allocated @@ ("model" :> map_location)
       ELSE /\ model' = "HRCNN"
            /\ allocated' = allocated @@ ("model" :> IF args.cuda THEN "cuda" ELSE "cpu")
            /\ UNCHANGED loads
    /\ pc' = "build_optimizer"
    /\ UNCHANGED <<args, cuda_available, device, seeded, train_calls, reported>>
    /\ UNCHANGED <<factory_vars, cache_vars, trainer_vars>>

\* lines 116-117: Adam over the model's trainable parameters
BuildOptimizer ==
    /\ pc = "build_optimizer"
    /\ allocated' = allocated @@ ("optimizer" :> allocated["model"])
    /\ pc' = "build_evaluators"
    /\ UNCHANGED <<args, cuda_available, device, seeded, model, loads, train_calls, reported>>
    /\ UNCHANGED <<factory_vars, cache_vars, trainer_vars>>

\* lines 119-147: the three evaluators, each handed args.gpu as its device,
\* and the trainer configuration
BuildEvaluators ==
    /\ pc = "build_evaluators"
    /\ allocated' = allocated @@
           [c \in {"train_evaluator", "test_evaluator", "dev_evaluator"} |->
               get_evaluator("VulasDiffTokenHierarchical", model, "None", c, "batch_size", "args.gpu").device]
    /\ pc' = "get_trainer"
    /\ UNCHANGED <<args, cuda_available, device, seeded, model, loads, train_calls, reported>>
    /\ UNCHANGED <<factory_vars, cache_vars, trainer_vars>>

\* lines 149-168: the trainer is asked of the factory.  If the factory
\* raises, the run ends there.  Else training runs unless a trained model is
\* given, in which case that model is loaded; then, if the trainer has a
\* snapshot_path, the model is loaded from it; then dev and test are
\* evaluated and reported, in that order.
RunTrainer ==
    /\ pc = "get_trainer"
    /\ LET r == get_trainer(args.dataset, model, "None", "train_iter", "trainer_config",
                            "train_evaluator", "test_evaluator", "dev_evaluator")
       IN  /\ requested' = Append(requested, args.dataset)
           /\ constructed' = constructed \o r.built
           /\ raised' = r.raised
           /\ IF r.raised # NoError
              THEN /\ pc' = "raised"
                   /\ UNCHANGED <<trainer, model, loads, train_calls, reported>>
              ELSE LET given  == args.trained_model
                       m1     == IF given THEN "trained_model" ELSE model
                       l1     == IF given
                                 THEN <<[path |-> "trained_model", map_location |-> map_location]>>
                                 ELSE <<>>
                       has    == "snapshot_path" \in DOMAIN r.value
                       m2     == IF has THEN r.value.snapshot_path ELSE m1
                       l2     == IF has
                                 THEN <<[path |-> r.value.snapshot_path, map_location |-> "none"]>>
                                 ELSE <<>>
                   IN  /\ trainer' = r.value
                       /\ train_calls' = IF given THEN train_calls ELSE train_calls + 1
                       /\ loads' = loads \o l1 \o l2
                       /\ model' = m2
                       /\ reported' = <<evaluate_dataset("dev", "VulasDiffTokenHierarchical", m2, "None", "dev_iter", "batch_size", "args.gpu"),
                                        evaluate_dataset("test", "VulasDiffTokenHierarchical", m2, "None", "test_iter", "batch_size", "args.gpu")>>
                       /\ pc' = "done"
    /\ UNCHANGED <<args, cuda_available, device, seeded, allocated>>
    /\ UNCHANGED <<cache_vars, trainer_vars>>

----------------------------------------------------------------------------
(* Initial states and specifications *)

MainIdle ==
    /\ pc = "idle"
    /\ args = [dataset |-> "", cuda |-> FALSE, resume_snapshot |-> FALSE,
               trained_model |-> FALSE, seed |-> 0]
    /\ cuda_available = FALSE
    /\ device = "unset"
    /\ seeded = <<>>
    /\ allocated = <<>>
    /\ model = "none"
    /\ loads = <<>>
    /\ train_calls = 0
    /\ reported = <<>>

FactoryIdle ==
    /\ raised = NoError
    /\ trainer = NoTrainer
    /\ constructed = <<>>
    /\ requested = <<>>

CacheEmpty ==
    /\ cache = <<>>
    /\ next_id = 1
    /\ unk_calls = <<>>

TrainerIdle ==
    /\ t_state = "Idle"
    /\ t_epoch = 0
    /\ best_dev = 0
    /\ unimproved = 0
    /\ snapshot = 0
    /\ dev_metrics = <<>>
    /\ patience = 1
    /\ epochs = 1

\* The entry point starts with the parsed command line, on a machine with or
\* without an accelerator.
Init ==
    /\ pc = "seed_torch"
    /\ args \in [dataset : DatasetNames, cuda : BOOLEAN, resume_snapshot : BOOLEAN,
                 trained_model : BOOLEAN, seed : Seeds]
    /\ cuda_available \in BOOLEAN
    /\ device = "unset"
    /\ seeded = <<>>
    /\ allocated = <<>>
    /\ model = "none"
    /\ loads = <<>>
    /\ train_calls = 0
    /\ reported = <<>>
    /\ FactoryIdle /\ CacheEmpty /\ TrainerIdle

Next ==
    \/ SeedTorch
    \/ ResolveDevice
    \/ SeedNumpyRandom
    \/ LoadDataset
    \/ BuildModel
    \/ BuildOptimizer
    \/ BuildEvaluators
    \/ RunTrainer

Spec == Init /\ [][Next]_vars

InitFactory == MainIdle /\ FactoryIdle /\ CacheEmpty /\ TrainerIdle

NextFactory ==
    \E n \in DatasetNames, m \in {"HRCNN", "resume_snapshot"}, loader \in {"train_iter", "dev_iter"} :
        CallGetTrainer(n, m, loader)

SpecFactory == InitFactory /\ [][NextFactory]_vars

InitCache == MainIdle /\ FactoryIdle /\ CacheEmpty /\ TrainerIdle

NextCache == \E shape \in Shapes : \E sample \in Fills(shape) : unk(shape, sample)

SpecCache == InitCache /\ [][NextCache]_vars

InitTrainer ==
    /\ MainIdle /\ FactoryIdle /\ CacheEmpty
    /\ t_state = "Idle"
    /\ t_epoch = 0
    /\ best_dev = 0
    /\ unimproved = 0
    /\ snapshot = 0
    /\ dev_metrics = <<>>
    /\ patience \in 1..MaxPatience
    /\ epochs \in 1..MaxEpochs

NextTrainer ==
    \/ StartTraining
    \/ TrainEpoch
    \/ \E metric \in 0..MaxMetric : Evaluate(metric)

SpecTrainer == InitTrainer /\ [][NextTrainer]_vars

----------------------------------------------------------------------------
(* Properties *)

Last(seq) == seq[Len(seq)]
Ended == pc \in {"done", "raised"}

\* C1 (SpecFactory): a get_trainer call with a name that is not a key of
\* trainer_map raises an error whose message contains the name, and runs no
\* constructor: the trainers ever constructed are exactly one per call with
\* a recognized name.
C1_UnknownNameRaises ==
    /\ Len(constructed) = Cardinality({i \in 1..Len(requested) : requested[i] \in trainer_map})
    /\ (requested # <<>> /\ Last(requested) \notin trainer_map)
          => (raised # NoError /\ Contains(raised, Last(requested)))

\* C1 witness: after a recognized call built a trainer, an unrecognized call
\* has raised and built nothing.
C1_Witness ==
    /\ Len(requested) >= 2
    /\ Last(requested) \notin trainer_map
    /\ Last(requested) # ""
    /\ raised # NoError
    /\ Len(constructed) = 1

\* C2 (Spec): for every dataset name the entry point accepts, its call of
\* TrainerFactory.get_trainer returns a trainer and does not raise.
C2_SupportedDatasetGetsTrainer ==
    (Ended /\ args.dataset \in dataset_map) => (raised = NoError /\ trainer # NoTrainer)

\* C3 (SpecCache): every unk call returns the tensor the first call for its
\* shape returned, that tensor is still the cache's entry for the shape, and
\* different shapes have different tensor objects.
C3_Memoized ==
    /\ \A i \in 1..Len(unk_calls) : \A j \in i..Len(unk_calls) :
          unk_calls[i].shape = unk_calls[j].shape => unk_calls[i].ret = unk_calls[j].ret
    /\ \A i \in 1..Len(unk_calls) :
          /\ unk_calls[i].shape \in DOMAIN cache
          /\ cache[unk_calls[i].shape] = unk_calls[i].ret
    /\ \A s1 \in DOMAIN cache : \A s2 \in DOMAIN cache :
          s1 # s2 => cache[s1].id # cache[s2].id

\* C3 witness: a shape was requested, then another shape, then the first
\* again.
C3_Witness ==
    /\ Len(unk_calls) = 3
    /\ unk_calls[1].shape = unk_calls[3].shape
    /\ unk_calls[2].shape # unk_calls[1].shape
    /\ unk_calls[3].ret = unk_calls[1].ret

\* C4 (Spec): when a run ends with a dataset-name error, no training
\* resource (iterators, model, optimizer, evaluators) has been allocated.
C4_FailsBeforeAllocation ==
    pc = "raised" => (allocated = <<>> /\ model = "none")

\* the best metric seen before evaluation i (0 before the first)
BestBefore(i) ==
    LET seen == {dev_metrics[j] : j \in 1..(i - 1)} \cup {0}
    IN  CHOOSE b \in seen : \A x \in seen : x <= b
Improves(i) == dev_metrics[i] > BestBefore(i)
\* the last improving evaluation (0: none so far)
LastImproving ==
    LET imp == {i \in 1..Len(dev_metrics) : Improves(i)} \cup {0}
    IN  CHOOSE i \in imp : \A k \in imp : k <= i
\* the number of non-improving evaluations since the last improving one
NonImprovingRun == Len(dev_metrics) - LastImproving

C6_LoadsRemapToDevice ==
    \A i \in 1..Len(loads) : loads[i].map_location = device

\* C7 (Spec): the device is resolved before any component is built, and the
\* iterators, the model and its optimizer are on the resolved device; so
\* with the CPU resolved nothing is put on the accelerator.
C7_SingleDevice ==
    /\ allocated # <<>> => device # "unset"
    /\ \A c \in DOMAIN allocated \cap {"train_iter", "dev_iter", "test_iter", "model", "optimizer"} :
          allocated[c] = device

\* C8 (Spec): a run on a supported dataset trains exactly once when no
\* trained model is given and never when one is, and a completed run has
\* reported dev and then test.
C8_TrainsIffNoTrainedModel ==
    /\ (Ended /\ args.dataset \in dataset_map)
          => train_calls = (IF args.trained_model THEN 0 ELSE 1)
    /\ pc = "done" => (Len(reported) = 2 /\ reported[1].split = "dev" /\ reported[2].split = "test")

\* C9 (Spec): once an iterator or a model exists, all three random sources
\* have been seeded with the configured seed.
C9_SeededFirst ==
    (allocated # <<>> \/ model # "none" \/ loads # <<>>)
        => \A src \in RandomSources : src \in DOMAIN seeded /\ seeded[src] = args.seed

\* C9 witness: the iterators and the model exist.
C9_Witness ==
    /\ "train_iter" \in DOMAIN allocated
    /\ model # "none"
    /\ args.seed = 1
    /\ DOMAIN seeded = RandomSources

\* C10 (Spec): a run on a supported dataset that is given a trained model
\* ends having computed the dev and test metrics on that model.
C10_EvaluatesTrainedModel ==
    (Ended /\ args.dataset \in dataset_map /\ args.trained_model)
        => /\ Len(reported) = 2
           /\ \A i \in 1..Len(reported) : reported[i].model = "trained_model"

====
